---- MODULE Spec2Model ----
(***************************************************************************)
(* A model of the saves API (saves-api/src/index.ts): the identity gate,   *)
(* the user, category and transaction tables, and the request handlers of  *)
(* /api/auth, /api/transactions and /api/stats; and of the saves app: the  *)
(* session kept by src/api/client, the screens that route on it, the       *)
(* category list of AddScreen and the month range of HomeScreen.           *)
(*                                                                         *)
(* Text is a sequence of one-character strings, so that split, parseInt    *)
(* and startsWith are computed as the code computes them.  A calendar day  *)
(* 'YYYY-MM-DD' is the triple <<Y, M, D>>; for texts of that fixed,        *)
(* zero-padded shape the string order of SQLite is the lexicographic order *)
(* of the triples.  Amounts are integers (the REAL column holds them       *)
(* exactly).  An optional value (null | v) is the set {} or {v}.           *)
(***************************************************************************)
EXTENDS Integers, Sequences, FiniteSets, TLC

VARIABLES
    users,          \* table users: rows [id, username, password_hash]
    categories,     \* table categories: rows [id, name, type]
    transactions,   \* table transactions: rows [id, amount, type, category_id, note, date, user_id]
    nextTxId,       \* AUTOINCREMENT counter of transactions
    txCap,          \* the highest id the model lets that counter hand out
    now,            \* the clock, in days since 2024-01-01
    resp,           \* the last request and the response it was given
    inflight,       \* the requests suspended at an await between two of their statements
    authToken,      \* app: the module-level token of src/api/client
    storage,        \* app: AsyncStorage, the items saves_auth_token and saves_user
    queue,          \* app: the AsyncStorage operations issued and not yet executed, oldest first
    calls,          \* app: the calls of the client module suspended at an await
    isLoading,      \* app: RootLayout's isLoading
    route,          \* app: the screen the router shows
    addType,        \* app: AddScreen's type
    addCategories,  \* app: AddScreen's categories
    selectedCategory, \* app: AddScreen's selectedCategory
    fetches,        \* app: the category requests of AddScreen awaiting their response
    submitted,      \* app: the body of the last createTransaction sent by AddScreen
    monthRange      \* app: the last range HomeScreen computed, with the date and offset it was computed from

\* the variables of the API and those of the app
client == <<authToken, storage, queue, calls, isLoading, route,
            addType, addCategories, selectedCategory, fetches, submitted, monthRange>>

vars == <<users, categories, transactions, nextTxId, txCap, now, resp, inflight, client>>

(***************************************************************************)
(* Bounds of the model                                                     *)
(***************************************************************************)
MaxUsers == 2
MaxTx == 2
StartDay == 60
MaxTicks == 1
Preload == 50
MaxInflight == 2
MaxStats == 1

\* app: the calls of the client module, and the category requests, that may be
\* suspended at one time
MaxCalls == 2

MaxFetches == 2

(***************************************************************************)
(* Text                                                                    *)
(***************************************************************************)
NULL == {}

Some(v) == {v}

The(o) == CHOOSE v \in o : TRUE

DecDigits == <<"0", "1", "2", "3", "4", "5", "6", "7", "8", "9">>

HexDigits == DecDigits \o <<"a", "b", "c", "d", "e", "f">>

\* the value of the digit ch in the given radix, or -1
DigitVal(ch, radix) ==
    LET hits == {i \in 1..radix : HexDigits[i] = ch}
    IN  IF hits = {} THEN -1 ELSE (CHOOSE i \in hits : TRUE) - 1

\* String(n) of a non-negative integer, as the template literal prints it
RECURSIVE NumberToString(_)
NumberToString(n) ==
    IF n < 10 THEN <<DecDigits[n + 1]>>
    ELSE NumberToString(n \div 10) \o <<DecDigits[(n % 10) + 1]>>

\* String.prototype.split(sep) for a one-character separator
RECURSIVE Split(_, _)
Split(s, sep) ==
    LET at == {i \in 1..Len(s) : s[i] = sep}
    IN  IF at = {} THEN <<s>>
        ELSE LET i == CHOOSE k \in at : \A j \in at : k <= j
             IN  <<SubSeq(s, 1, i - 1)>> \o Split(SubSeq(s, i + 1, Len(s)), sep)

\* the digits of s in the radix, read from the left until the first other character
RECURSIVE ReadDigits(_, _, _, _)
ReadDigits(s, radix, acc, seen) ==
    IF s = <<>> \/ DigitVal(Head(s), radix) < 0
    THEN IF seen THEN Some(acc) ELSE NULL
    ELSE ReadDigits(Tail(s), radix, acc * radix + DigitVal(Head(s), radix), TRUE)

RECURSIVE SkipSpaces(_)
SkipSpaces(s) ==
    IF s # <<>> /\ Head(s) = " " THEN SkipSpaces(Tail(s)) ELSE s

\* parseInt(s) without a radix: leading white space, a sign, a 0x prefix, then
\* the longest run of digits; NaN (NULL here) when there is no digit
ParseInt(s) ==
    LET t == SkipSpaces(s)
        neg == t # <<>> /\ Head(t) = "-"
        u == IF t # <<>> /\ Head(t) \in {"-", "+"} THEN Tail(t) ELSE t
        hex == Len(u) >= 2 /\ u[1] = "0" /\ u[2] \in {"x", "X"}
        r == IF hex THEN ReadDigits(SubSeq(u, 3, Len(u)), 16, 0, FALSE)
             ELSE ReadDigits(u, 10, 0, FALSE)
    IN  IF r = NULL THEN NULL ELSE Some(IF neg THEN 0 - The(r) ELSE The(r))

\* btoa / atob: a token is base64 text; atob throws on text that is not base64
btoa(s) == [base64 |-> TRUE, text |-> s]

atobThrows(token) == ~token.base64

atob(token) == token.text

\* hashPassword: the hex SHA-256 digest of password + salt (injective on the model's passwords)
hashPassword(password) == <<"sha256">> \o password \o <<"saves-salt-2024">>

(***************************************************************************)
(* The identity gate                                                       *)
(***************************************************************************)
\* 'SELECT id, username FROM users WHERE id = ? AND username = ?' .first()
FindUser(id, username) ==
    LET hits == {u \in users : u.id = id /\ u.username = username}
    IN  IF hits = {} THEN NULL
        ELSE LET u == CHOOSE r \in hits : TRUE
             IN  Some([id |-> u.id, username |-> u.username])

\* (a variant in which a credential issued before today has expired)
authMiddleware_Expiring(header) ==
    IF header = NULL \/ The(header).prefix # "Bearer " THEN NULL
    ELSE LET token == The(header).token
         IN  IF atobThrows(token) THEN NULL
             ELSE LET parts == Split(atob(token), ":")
                      userId == parts[1]
                  IN  IF Len(parts) < 2 THEN NULL
                      ELSE IF ParseInt(userId) = NULL THEN NULL
                      ELSE IF Len(parts) >= 3 /\ ParseInt(parts[3]) # NULL
                              /\ The(ParseInt(parts[3])) < now THEN NULL
                      ELSE FindUser(The(ParseInt(userId)), parts[2])

\* (a variant that takes only a credential of three fields or more)
authMiddleware_ThreeFields(header) ==
    IF header = NULL \/ The(header).prefix # "Bearer " THEN NULL
    ELSE LET token == The(header).token
         IN  IF atobThrows(token) THEN NULL
             ELSE LET parts == Split(atob(token), ":")
                      userId == parts[1]
                  IN  IF Len(parts) < 3 THEN NULL
                      ELSE IF ParseInt(userId) = NULL THEN NULL
                      ELSE FindUser(The(ParseInt(userId)), parts[2])

\* c.get('user') after authMiddleware ran on the Authorization header
\* (header: NULL when absent, else [prefix, token] with value = prefix + token)
authMiddleware(header) ==
    IF header = NULL \/ The(header).prefix # "Bearer " THEN NULL
    ELSE LET token == The(header).token
         IN  IF atobThrows(token) THEN NULL
             ELSE LET parts == Split(atob(token), ":")
                      userId == parts[1]
                  IN  \* username is undefined: bind() throws, caught
                      IF Len(parts) < 2 THEN NULL
                      \* NaN is bound as NULL: id = NULL matches no row
                      ELSE IF ParseInt(userId) = NULL THEN NULL
                      ELSE FindUser(The(ParseInt(userId)), parts[2])

\* requireAuth(c): TRUE when it returns the 401 response
requireAuth(user) == user = NULL

(***************************************************************************)
(* Calendar days                                                           *)
(***************************************************************************)
LeapYear(y) == (y % 4 = 0 /\ y % 100 # 0) \/ y % 400 = 0

DaysInMonth(y, m) ==
    IF m = 2 THEN (IF LeapYear(y) THEN 29 ELSE 28)
    ELSE IF m \in {4, 6, 9, 11} THEN 30 ELSE 31

\* the calendar day n days after the first day of month m of year y
RECURSIVE DayFrom(_, _, _)
DayFrom(y, m, n) ==
    IF n < DaysInMonth(y, m) THEN <<y, m, n + 1>>
    ELSE IF m < 12 THEN DayFrom(y, m + 1, n - DaysInMonth(y, m))
    ELSE DayFrom(y + 1, 1, n - DaysInMonth(y, m))

\* the calendar day n days after 2024-01-01
DateOfDay(n) == DayFrom(2024, 1, n)

\* SQLite date('now', '-30 days') when the clock reads day `today`
DailyWindow == 30

DailyFloor(today) == DateOfDay(today - DailyWindow)

\* a <= b between two 'YYYY-MM-DD' texts (string order)
DateLE(a, b) ==
    \/ a[1] < b[1]
    \/ a[1] = b[1] /\ a[2] < b[2]
    \/ a[1] = b[1] /\ a[2] = b[2] /\ a[3] <= b[3]

\* /^\d{4}-\d{2}-\d{2}$/ : four, two and two digits
DateShape(d) == d[1] \in 0..9999 /\ d[2] \in 0..99 /\ d[3] \in 0..99

\* SQLite strftime('%Y-%m', date): NULL unless the month is 01..12 and the day
\* 01..31; a day past the end of its month rolls over into the next month
strftimeMonth(d) ==
    IF ~(d[2] \in 1..12 /\ d[3] \in 1..31) THEN NULL
    ELSE IF d[3] > DaysInMonth(d[1], d[2]) THEN Some(<<d[1], d[2] + 1>>)
    ELSE Some(<<d[1], d[2]>>)

\* ORDER BY month: NULL sorts before every value
MonthLE(a, b) ==
    \/ a = NULL
    \/ a # NULL /\ b # NULL /\
       (The(a)[1] < The(b)[1] \/ (The(a)[1] = The(b)[1] /\ The(a)[2] <= The(b)[2]))

(***************************************************************************)
(* Tables                                                                  *)
(***************************************************************************)
\* the preset rows of table categories
SeedCategories ==
    {[id |-> i, name |-> "income", type |-> "income"] : i \in 1..4} \cup
    {[id |-> i, name |-> "expense", type |-> "expense"] : i \in 5..12}

\* FOREIGN KEY (category_id) REFERENCES categories(id)
CategoryExists(id) == \E c \in categories : c.id = id

CategoryOf(id) == CHOOSE c \in categories : c.id = id

Types == {"income", "expense"}

(***************************************************************************)
(* Request bodies: a body is a record holding the fields that are present  *)
(***************************************************************************)
Has(body, f) == f \in DOMAIN body

\* createTransactionSchema, field by field
FieldValid(f, v) ==
    CASE f = "amount" -> v > 0
      [] f = "type" -> v \in Types
      [] f = "category_id" -> v > 0
      [] f = "note" -> TRUE
      [] f = "date" -> DateShape(v)
      [] OTHER -> TRUE

TxFields == {"amount", "type", "category_id", "note", "date"}

\* zValidator('json', createTransactionSchema) accepts the body
createTransactionSchema(body) ==
    /\ {"amount", "type", "category_id", "date"} \subseteq DOMAIN body
    /\ \A f \in DOMAIN body \cap TxFields : FieldValid(f, body[f])

\* (a variant that lets every body through)
partialTransactionSchema_Unchecked(body) == TRUE

\* zValidator('json', createTransactionSchema.partial()) accepts the body
partialTransactionSchema(body) ==
    \A f \in DOMAIN body \cap TxFields : FieldValid(f, body[f])

\* note || null
NoteOrNull(note) == IF note = "" THEN NULL ELSE Some(note)

(***************************************************************************)
(* ORDER BY: every sequence of the rows of S in which no row precedes one  *)
(* that sorts strictly before it (before[x, y]: x may come before y); rows *)
(* that tie come in either order                                           *)
(***************************************************************************)
\* ranked: the pairs <<row, rank>>; rows of equal rank tie
RankOrder(ranked) ==
    LET RECURSIVE Perms(_)
        Perms(T) ==
            IF T = {} THEN {<<>>}
            ELSE UNION {{<<x>> \o rest : rest \in Perms(T \ {x})} : x \in T}
        RECURSIVE From(_)
        From(r) ==
            IF r >= Cardinality(ranked) THEN {<<>>}
            ELSE LET tied == {p[1] : p \in {q \in ranked : q[2] = r}}
                 IN  {p \o rest : p \in Perms(tied), rest \in From(r + Cardinality(tied))}
    IN  From(0)

\* the rank of a row is the number of rows that sort strictly before it
OrderBy(S, before) ==
    RankOrder({<<x, Cardinality({y \in S : before[y, x] /\ ~before[x, y]})>> : x \in S})

\* (a variant that binds the two parameters in the other order: LIMIT offset OFFSET limit)
LimitOffset_Swapped(rows, n, k) ==
    LET from == n + 1
        to == IF k < 0 \/ n + k > Len(rows) THEN Len(rows) ELSE n + k
    IN  SubSeq(rows, from, to)

\* LIMIT n OFFSET k (a negative LIMIT is no limit)
LimitOffset(rows, n, k) ==
    LET from == k + 1
        to == IF n < 0 \/ k + n > Len(rows) THEN Len(rows) ELSE k + n
    IN  SubSeq(rows, from, to)

\* SUM(amount) over the rows of S
RECURSIVE SumAmount(_)
SumAmount(S) ==
    IF S = {} THEN 0
    ELSE LET t == CHOOSE r \in S : TRUE IN t.amount + SumAmount(S \ {t})

(***************************************************************************)
(* Queries                                                                 *)
(***************************************************************************)
\* (a variant that sorts ORDER BY t.date ASC, t.id ASC)
ListRows_Ascending(user, q) ==
    LET match == {t \in transactions :
                    /\ CategoryExists(t.category_id)
                    /\ t.user_id = user.id
                    /\ (Has(q, "type") /\ q.type # "" => t.type = q.type)
                    /\ (Has(q, "start_date") => DateLE(q.start_date, t.date))
                    /\ (Has(q, "end_date") => DateLE(t.date, q.end_date))}
        rows == {[category_name |-> CategoryOf(t.category_id).name] @@ t : t \in match}
        before == [x \in rows, y \in rows |->
                    IF x.date = y.date THEN x.id <= y.id ELSE DateLE(x.date, y.date)]
        limit == ParseInt(IF Has(q, "limit") THEN q.limit ELSE <<"5", "0">>)
        offset == ParseInt(IF Has(q, "offset") THEN q.offset ELSE <<"0">>)
    IN  {LimitOffset(o, The(limit), The(offset)) : o \in OrderBy(rows, before)}

\* GET /api/transactions: the SELECT ... JOIN ... WHERE ... ORDER BY ... LIMIT ? OFFSET ?
ListRows(user, q) ==
    LET match == {t \in transactions :
                    /\ CategoryExists(t.category_id)
                    /\ t.user_id = user.id
                    /\ (Has(q, "type") /\ q.type # "" => t.type = q.type)
                    /\ (Has(q, "start_date") => DateLE(q.start_date, t.date))
                    /\ (Has(q, "end_date") => DateLE(t.date, q.end_date))}
        rows == {[category_name |-> CategoryOf(t.category_id).name] @@ t : t \in match}
        before == [x \in rows, y \in rows |->
                    IF x.date = y.date THEN x.id >= y.id ELSE DateLE(y.date, x.date)]
        limit == ParseInt(IF Has(q, "limit") THEN q.limit ELSE <<"5", "0">>)
        offset == ParseInt(IF Has(q, "offset") THEN q.offset ELSE <<"0">>)
    IN  {LimitOffset(o, The(limit), The(offset)) : o \in OrderBy(rows, before)}

\* (a variant whose bounds are exclusive: date > ? AND date < ?)
StatsFilter_Exclusive(user, q) ==
    {t \in transactions :
        /\ t.user_id = user.id
        /\ (Has(q, "start_date") /\ Has(q, "end_date") =>
                ~DateLE(t.date, q.start_date) /\ ~DateLE(q.end_date, t.date))}

\* (a variant that forgets WHERE user_id = ?)
StatsFilter_AllUsers(user, q) ==
    {t \in transactions :
        (Has(q, "start_date") /\ Has(q, "end_date") =>
            DateLE(q.start_date, t.date) /\ DateLE(t.date, q.end_date))}

\* GET /api/stats: the rows the dateFilter keeps
StatsFilter(user, q) ==
    {t \in transactions :
        /\ t.user_id = user.id
        /\ (Has(q, "start_date") /\ Has(q, "end_date") =>
                DateLE(q.start_date, t.date) /\ DateLE(t.date, q.end_date))}

\* SELECT type, SUM(amount) as total, COUNT(*) as count ... GROUP BY type
StatsTotals(user, q) ==
    LET rows == StatsFilter(user, q)
    IN  {[type |-> ty,
          total |-> SumAmount({t \in rows : t.type = ty}),
          count |-> Cardinality({t \in rows : t.type = ty})] :
            ty \in {t.type : t \in rows}}

\* (a variant that adds where the code subtracts)
StatsSummary_Added(totals) ==
    LET find(ty) == {r \in totals : r.type = ty}
        total(ty) == IF find(ty) = {} THEN 0 ELSE The(find(ty)).total
        count(ty) == IF find(ty) = {} THEN 0 ELSE The(find(ty)).count
    IN  [income |-> total("income"),
         expense |-> total("expense"),
         balance |-> total("income") + total("expense"),
         income_count |-> count("income"),
         expense_count |-> count("expense")]

\* totals.results?.find(r => r.type === ty), then r?.total || 0 and r?.count || 0
StatsSummary(totals) ==
    LET find(ty) == {r \in totals : r.type = ty}
        total(ty) == IF find(ty) = {} THEN 0 ELSE The(find(ty)).total
        count(ty) == IF find(ty) = {} THEN 0 ELSE The(find(ty)).count
    IN  [income |-> total("income"),
         expense |-> total("expense"),
         balance |-> total("income") - total("expense"),
         income_count |-> count("income"),
         expense_count |-> count("expense")]

\* (a variant whose by_category query leaves the dateFilter out)
StatsByCategory_Unfiltered(user, q) ==
    LET rows == {t \in StatsFilter(user, <<>>) : CategoryExists(t.category_id)}
        of(cid) == {t \in rows : t.category_id = cid}
        groups == {[id |-> cid,
                    name |-> CategoryOf(cid).name,
                    type |-> CategoryOf(cid).type,
                    total |-> SumAmount(of(cid)),
                    count |-> Cardinality(of(cid))] : cid \in {t.category_id : t \in rows}}
        before == [x \in groups, y \in groups |-> x.total >= y.total]
    IN  OrderBy(groups, before)

\* (a variant that sorts ORDER BY total ASC)
StatsByCategory_Ascending(user, q) ==
    LET rows == {t \in StatsFilter(user, q) : CategoryExists(t.category_id)}
        of(cid) == {t \in rows : t.category_id = cid}
        groups == {[id |-> cid,
                    name |-> CategoryOf(cid).name,
                    type |-> CategoryOf(cid).type,
                    total |-> SumAmount(of(cid)),
                    count |-> Cardinality(of(cid))] : cid \in {t.category_id : t \in rows}}
        before == [x \in groups, y \in groups |-> x.total <= y.total]
    IN  OrderBy(groups, before)

\* SELECT c.id, c.name, c.type, SUM(t.amount), COUNT(*) ... JOIN ... GROUP BY c.id ORDER BY total DESC
StatsByCategory(user, q) ==
    LET rows == {t \in StatsFilter(user, q) : CategoryExists(t.category_id)}
        of(cid) == {t \in rows : t.category_id = cid}
        groups == {[id |-> cid,
                    name |-> CategoryOf(cid).name,
                    type |-> CategoryOf(cid).type,
                    total |-> SumAmount(of(cid)),
                    count |-> Cardinality(of(cid))] : cid \in {t.category_id : t \in rows}}
        before == [x \in groups, y \in groups |-> x.total >= y.total]
    IN  OrderBy(groups, before)

\* (a variant that forgets WHERE user_id = ? in the daily query)
StatsDaily_AllUsers(user, today) ==
    LET rows == {t \in transactions : DateLE(DailyFloor(today), t.date)}
        of(d, ty) == {t \in rows : t.date = d /\ t.type = ty}
        groups == {[date |-> k[1], type |-> k[2], total |-> SumAmount(of(k[1], k[2]))] :
                    k \in {<<t.date, t.type>> : t \in rows}}
        before == [x \in groups, y \in groups |-> DateLE(y.date, x.date)]
    IN  OrderBy(groups, before)

\* SELECT date, type, SUM(amount) ... WHERE user_id = ? AND date >= date('now', '-30 days')
\* GROUP BY date, type ORDER BY date DESC
StatsDaily(user, today) ==
    LET rows == {t \in transactions :
                    t.user_id = user.id /\ DateLE(DailyFloor(today), t.date)}
        of(d, ty) == {t \in rows : t.date = d /\ t.type = ty}
        groups == {[date |-> k[1], type |-> k[2], total |-> SumAmount(of(k[1], k[2]))] :
                    k \in {<<t.date, t.type>> : t \in rows}}
        before == [x \in groups, y \in groups |-> DateLE(y.date, x.date)]
    IN  OrderBy(groups, before)

\* GET /api/stats/monthly: GROUP BY month, type ORDER BY month DESC LIMIT 24
MonthlyLimit == 24

\* (a variant that sorts ORDER BY month ASC)
MonthlyRows_Ascending(user) ==
    LET rows == {t \in transactions : t.user_id = user.id}
        of(m, ty) == {t \in rows : strftimeMonth(t.date) = m /\ t.type = ty}
        groups == {[month |-> k[1], type |-> k[2],
                    total |-> SumAmount(of(k[1], k[2])),
                    count |-> Cardinality(of(k[1], k[2]))] :
                    k \in {<<strftimeMonth(t.date), t.type>> : t \in rows}}
        before == [x \in groups, y \in groups |-> MonthLE(x.month, y.month)]
    IN  {LimitOffset(o, MonthlyLimit, 0) : o \in OrderBy(groups, before)}

MonthlyRows(user) ==
    LET rows == {t \in transactions : t.user_id = user.id}
        of(m, ty) == {t \in rows : strftimeMonth(t.date) = m /\ t.type = ty}
        groups == {[month |-> k[1], type |-> k[2],
                    total |-> SumAmount(of(k[1], k[2])),
                    count |-> Cardinality(of(k[1], k[2]))] :
                    k \in {<<strftimeMonth(t.date), t.type>> : t \in rows}}
        before == [x \in groups, y \in groups |-> MonthLE(y.month, x.month)]
    IN  {LimitOffset(o, MonthlyLimit, 0) : o \in OrderBy(groups, before)}

(***************************************************************************)
(* Request handlers.  Each action is one request: the gate, the validator, *)
(* the handler and its SQL statements, and the response.                   *)
(***************************************************************************)
tables == <<users, categories, transactions, nextTxId, txCap>>

Respond(op, header, req, status, body) ==
    resp' = [op |-> op, header |-> header, user |-> authMiddleware(header),
             req |-> req, at |-> now, status |-> status, body |-> body]

\* username: z.string().min(3).max(20).regex(/^[a-zA-Z0-9_]+$/)
UsernameChars ==
    {"a", "b", "c", "d", "e", "f", "g", "h", "i", "j", "k", "l", "m",
     "n", "o", "p", "q", "r", "s", "t", "u", "v", "w", "x", "y", "z",
     "A", "B", "C", "D", "E", "F", "G", "H", "I", "J", "K", "L", "M",
     "N", "O", "P", "Q", "R", "S", "T", "U", "V", "W", "X", "Y", "Z",
     "0", "1", "2", "3", "4", "5", "6", "7", "8", "9", "_"}

registerSchema(body) ==
    /\ Len(body.username) \in 3..20
    /\ \A i \in 1..Len(body.username) : body.username[i] \in UsernameChars
    /\ Len(body.password) \in 6..50
    /\ body.password = body.confirm_password

\* btoa(`${id}:${username}:${Date.now()}`)
IssueToken(id, username) ==
    btoa(NumberToString(id) \o <<":">> \o username \o <<":">> \o NumberToString(now))

\* POST /api/auth/register
Register(header, body) ==
    LET existing == {u \in users : u.username = body.username}
        id == Cardinality(users) + 1
    IN  /\ UNCHANGED <<categories, transactions, nextTxId, txCap, now, client, inflight>>
        /\ IF ~registerSchema(body)
           THEN Respond("register", header, body, 400, [error |-> "invalid"]) /\ UNCHANGED users
           ELSE IF existing # {}
           THEN Respond("register", header, body, 400, [error |-> "username taken"]) /\ UNCHANGED users
           ELSE /\ Cardinality(users) < MaxUsers
                /\ users' = users \cup {[id |-> id, username |-> body.username,
                                         password_hash |-> hashPassword(body.password)]}
                /\ Respond("register", header, body, 201,
                           [user |-> [id |-> id, username |-> body.username],
                            token |-> IssueToken(id, body.username)])

\* loginSchema: username and password of at least one character
loginSchema(body) == Len(body.username) >= 1 /\ Len(body.password) >= 1

\* (a variant that looks the user up by username alone)
Login_AnyPassword(header, body) ==
    LET hits == {u \in users : u.username = body.username}
    IN  /\ UNCHANGED <<tables, now, client, inflight>>
        /\ IF ~loginSchema(body)
           THEN Respond("login", header, body, 400, [error |-> "invalid"])
           ELSE IF hits = {}
           THEN Respond("login", header, body, 401, [error |-> "wrong"])
           ELSE LET u == CHOOSE r \in hits : TRUE
                IN  Respond("login", header, body, 200,
                            [user |-> [id |-> u.id, username |-> u.username],
                             token |-> IssueToken(u.id, u.username)])

\* POST /api/auth/login
Login(header, body) ==
    LET hits == {u \in users : u.username = body.username
                               /\ u.password_hash = hashPassword(body.password)}
    IN  /\ UNCHANGED <<tables, now, client, inflight>>
        /\ IF ~loginSchema(body)
           THEN Respond("login", header, body, 400, [error |-> "invalid"])
           ELSE IF hits = {}
           THEN Respond("login", header, body, 401, [error |-> "wrong"])
           ELSE LET u == CHOOSE r \in hits : TRUE
                IN  Respond("login", header, body, 200,
                            [user |-> [id |-> u.id, username |-> u.username],
                             token |-> IssueToken(u.id, u.username)])

\* GET /api/auth/me
Me(header) ==
    LET user == authMiddleware(header)
    IN  /\ UNCHANGED <<tables, now, client, inflight>>
        /\ IF user = NULL THEN Respond("me", header, <<>>, 401, [error |-> "not logged in"])
           ELSE Respond("me", header, <<>>, 200, [user |-> The(user)])

\* (a variant that takes the rows it returns out of the table)
ListTx_Draining(header, q) ==
    LET user == authMiddleware(header)
    IN  /\ UNCHANGED <<users, categories, nextTxId, txCap, now, client, inflight>>
        /\ IF requireAuth(user)
           THEN Respond("list", header, q, 401, [error |-> "login first"]) /\ UNCHANGED transactions
           ELSE \E rows \in ListRows(The(user), q) :
                    /\ Respond("list", header, q, 200, [rows |-> rows])
                    /\ transactions' = {t \in transactions :
                                           \A i \in 1..Len(rows) : rows[i].id # t.id}

\* GET /api/transactions
ListTx(header, q) ==
    LET user == authMiddleware(header)
    IN  /\ UNCHANGED <<tables, now, client, inflight>>
        /\ IF requireAuth(user) THEN Respond("list", header, q, 401, [error |-> "login first"])
           ELSE \E rows \in ListRows(The(user), q) : Respond("list", header, q, 200, [rows |-> rows])

\* POST /api/transactions
CreateTx(header, body) ==
    LET user == authMiddleware(header)
        row == [id |-> nextTxId,
                amount |-> body.amount,
                type |-> body.type,
                category_id |-> body.category_id,
                note |-> IF Has(body, "note") THEN NoteOrNull(body.note) ELSE NULL,
                date |-> body.date,
                user_id |-> The(user).id]
    IN  /\ UNCHANGED <<users, categories, txCap, now, client, inflight>>
        /\ IF ~createTransactionSchema(body)
           THEN Respond("create", header, body, 400, [error |-> "invalid"])
                /\ UNCHANGED <<transactions, nextTxId>>
           ELSE IF requireAuth(user)
           THEN Respond("create", header, body, 401, [error |-> "login first"])
                /\ UNCHANGED <<transactions, nextTxId>>
           ELSE IF ~CategoryExists(body.category_id)
           THEN Respond("create", header, body, 500, [error |-> "FOREIGN KEY constraint failed"])
                /\ UNCHANGED <<transactions, nextTxId>>
           ELSE /\ nextTxId <= txCap
                /\ transactions' = transactions \cup {row}
                /\ nextTxId' = nextTxId + 1
                /\ Respond("create", header, body, 201, row)

\* (a variant that writes every key of the body into the row)
ApplyUpdates_AnyKey(t, body) ==
    [f \in DOMAIN t |->
        IF f \in DOMAIN body
        THEN (IF f = "note" THEN NoteOrNull(body.note) ELSE body[f])
        ELSE t[f]]

\* (a variant that writes every column, a missing note as NULL)
ApplyUpdates_WholeRow(t, body) ==
    [f \in DOMAIN t |->
        IF f = "note" THEN (IF Has(body, "note") THEN NoteOrNull(body.note) ELSE NULL)
        ELSE IF f \in DOMAIN body \cap TxFields THEN body[f]
        ELSE t[f]]

\* the row after UPDATE transactions SET <the fields of the body> = ?
ApplyUpdates(t, body) ==
    [f \in DOMAIN t |->
        IF f \in DOMAIN body \cap TxFields
        THEN (IF f = "note" THEN NoteOrNull(body.note) ELSE body[f])
        ELSE t[f]]

\* (a variant that forgets AND user_id = ?)
OwnedRow_AnyOwner(id, user) ==
    {t \in transactions : Some(t.id) = ParseInt(id)}

\* WHERE id = ? AND user_id = ? with parseInt(id) and user.id bound
OwnedRow(id, user) ==
    {t \in transactions : Some(t.id) = ParseInt(id) /\ t.user_id = user.id}

\* (a variant that runs the UPDATE's lookup before it counts the fields)
UpdateTx_LookupFirst(header, id, body) ==
    LET user == authMiddleware(header)
        req == [id |-> id, body |-> body]
        fields == DOMAIN body \cap TxFields
        hit == OwnedRow(id, The(user))
    IN  /\ UNCHANGED <<users, categories, nextTxId, txCap, now, client, inflight>>
        /\ IF ~partialTransactionSchema(body)
           THEN Respond("update", header, req, 400, [error |-> "invalid"]) /\ UNCHANGED transactions
           ELSE IF requireAuth(user)
           THEN Respond("update", header, req, 401, [error |-> "login first"]) /\ UNCHANGED transactions
           ELSE IF hit = {}
           THEN Respond("update", header, req, 404, [error |-> "Transaction not found"])
                /\ UNCHANGED transactions
           ELSE IF fields = {}
           THEN Respond("update", header, req, 400, [error |-> "No fields to update"])
                /\ UNCHANGED transactions
           ELSE IF Has(body, "category_id") /\ ~CategoryExists(body.category_id)
           THEN Respond("update", header, req, 500, [error |-> "FOREIGN KEY constraint failed"])
                /\ UNCHANGED transactions
           ELSE LET t == The(hit)
                IN  /\ transactions' = (transactions \ {t}) \cup {ApplyUpdates(t, body)}
                    /\ Respond("update", header, req, 200, ApplyUpdates(t, body))

\* PUT /api/transactions/:id
UpdateTx(header, id, body) ==
    LET user == authMiddleware(header)
        req == [id |-> id, body |-> body]
        fields == DOMAIN body \cap TxFields
        hit == OwnedRow(id, The(user))
    IN  /\ UNCHANGED <<users, categories, nextTxId, txCap, now, client, inflight>>
        /\ IF ~partialTransactionSchema(body)
           THEN Respond("update", header, req, 400, [error |-> "invalid"]) /\ UNCHANGED transactions
           ELSE IF requireAuth(user)
           THEN Respond("update", header, req, 401, [error |-> "login first"]) /\ UNCHANGED transactions
           ELSE IF fields = {}
           THEN Respond("update", header, req, 400, [error |-> "No fields to update"])
                /\ UNCHANGED transactions
           ELSE IF hit = {}
           THEN Respond("update", header, req, 404, [error |-> "Transaction not found"])
                /\ UNCHANGED transactions
           ELSE IF Has(body, "category_id") /\ ~CategoryExists(body.category_id)
           THEN Respond("update", header, req, 500, [error |-> "FOREIGN KEY constraint failed"])
                /\ UNCHANGED transactions
           ELSE LET t == The(hit)
                IN  /\ transactions' = (transactions \ {t}) \cup {ApplyUpdates(t, body)}
                    /\ Respond("update", header, req, 200, ApplyUpdates(t, body))

\* (a variant that deletes by id and checks the owner of the deleted row afterwards)
DeleteTx_ThenCheck(header, id) ==
    LET user == authMiddleware(header)
        req == [id |-> id]
        hit == OwnedRow(id, The(user))
    IN  /\ UNCHANGED <<users, categories, nextTxId, txCap, now, client, inflight>>
        /\ IF requireAuth(user)
           THEN Respond("delete", header, req, 401, [error |-> "login first"]) /\ UNCHANGED transactions
           ELSE IF hit = {}
           THEN Respond("delete", header, req, 404, [error |-> "Transaction not found"])
                /\ transactions' = {t \in transactions : Some(t.id) # ParseInt(id)}
           ELSE /\ transactions' = transactions \ hit
                /\ Respond("delete", header, req, 200, [success |-> TRUE])

\* DELETE /api/transactions/:id
DeleteTx(header, id) ==
    LET user == authMiddleware(header)
        req == [id |-> id]
        hit == OwnedRow(id, The(user))
    IN  /\ UNCHANGED <<users, categories, nextTxId, txCap, now, client, inflight>>
        /\ IF requireAuth(user)
           THEN Respond("delete", header, req, 401, [error |-> "login first"]) /\ UNCHANGED transactions
           ELSE IF hit = {}
           THEN Respond("delete", header, req, 404, [error |-> "Transaction not found"])
                /\ UNCHANGED transactions
           ELSE /\ transactions' = transactions \ hit
                /\ Respond("delete", header, req, 200, [success |-> TRUE])

\* GET /api/stats
GetStats(header, q) ==
    LET user == authMiddleware(header)
    IN  /\ UNCHANGED <<tables, now, client, inflight>>
        /\ IF requireAuth(user) THEN Respond("stats", header, q, 401, [error |-> "login first"])
           ELSE \E byCategory \in StatsByCategory(The(user), q) :
                \E daily \in StatsDaily(The(user), now) :
                    Respond("stats", header, q, 200,
                            [summary |-> StatsSummary(StatsTotals(The(user), q)),
                             by_category |-> byCategory,
                             daily |-> daily])

\* GET /api/stats/monthly
GetMonthly(header) ==
    LET user == authMiddleware(header)
    IN  /\ UNCHANGED <<tables, now, client, inflight>>
        /\ IF requireAuth(user) THEN Respond("monthly", header, <<>>, 401, [error |-> "login first"])
           ELSE \E rows \in MonthlyRows(The(user)) :
                    Respond("monthly", header, <<>>, 200, [rows |-> rows])

\* the clock moves on by a day
Tick ==
    /\ now < StartDay + MaxTicks
    /\ now' = now + 1
    /\ UNCHANGED <<tables, resp, inflight, client>>

(***************************************************************************)
(* Requests in steps.  A handler runs up to an await, is suspended while   *)
(* the statement it awaits executes, and any other request may run before  *)
(* it resumes.  inflight holds the suspended requests: what each has       *)
(* computed so far and the statement it resumes with.                      *)
(***************************************************************************)
Reply(op, header, user, req, status, body) ==
    resp' = [op |-> op, header |-> header, user |-> user,
             req |-> req, at |-> now, status |-> status, body |-> body]

\* a request slot that no suspended request holds
FreeSlot == CHOOSE i \in 1..(Cardinality(inflight) + 1) : \A r \in inflight : r.rid # i

\* POST /api/auth/register up to `await ... 'SELECT id FROM users WHERE username = ?'`
\* and the check of its result; it is suspended before the INSERT
RegisterSelect(header, body) ==
    LET existing == {u \in users : u.username = body.username}
    IN  /\ UNCHANGED <<tables, now, client>>
        /\ IF ~registerSchema(body)
           THEN /\ Reply("register", header, authMiddleware(header), body, 400,
                         [error |-> "invalid"])
                /\ UNCHANGED inflight
           ELSE IF existing # {}
           THEN /\ Reply("register", header, authMiddleware(header), body, 400,
                         [error |-> "username taken"])
                /\ UNCHANGED inflight
           ELSE /\ Cardinality(inflight) < MaxInflight
                /\ inflight' = inflight \cup
                       {[rid |-> FreeSlot, op |-> "register", header |-> header,
                         user |-> authMiddleware(header), req |-> body]}
                /\ UNCHANGED resp

\* the rest of POST /api/auth/register: the INSERT and the response.  The
\* INSERT of a username that is stored by now fails on the UNIQUE constraint:
\* .first() throws, nothing catches it, and the request is answered 500
RegisterInsert(r) ==
    LET body == r.req
        id == Cardinality(users) + 1
    IN  /\ r \in inflight /\ r.op = "register"
        /\ inflight' = inflight \ {r}
        /\ UNCHANGED <<categories, transactions, nextTxId, txCap, now, client>>
        /\ IF \E u \in users : u.username = body.username
           THEN /\ Reply("register", r.header, r.user, body, 500,
                         [error |-> "UNIQUE constraint failed"])
                /\ UNCHANGED users
           ELSE /\ Cardinality(users) < MaxUsers
                /\ users' = users \cup {[id |-> id, username |-> body.username,
                                         password_hash |-> hashPassword(body.password)]}
                /\ Reply("register", r.header, r.user, body, 201,
                         [user |-> [id |-> id, username |-> body.username],
                          token |-> IssueToken(id, body.username)])

\* GET /api/stats up to the first awaited query (totals by type)
StatsTotalsStep(header, q) ==
    LET user == authMiddleware(header)
    IN  /\ UNCHANGED <<tables, now, client>>
        /\ IF requireAuth(user)
           THEN /\ Reply("stats", header, user, q, 401, [error |-> "login first"])
                /\ UNCHANGED inflight
           ELSE /\ Cardinality({r \in inflight : r.op = "stats"}) < MaxStats
                /\ inflight' = inflight \cup
                       {[rid |-> FreeSlot, op |-> "stats", header |-> header,
                         user |-> user, req |-> q, stage |-> 1,
                         totals |-> StatsTotals(The(user), q),
                         by_category |-> <<>>,
                         seen1 |-> {t \in transactions : t.user_id = The(user).id},
                         seen2 |-> {}]}
                /\ UNCHANGED resp

\* the second awaited query of GET /api/stats (by category)
StatsCategoryStep(r) ==
    /\ r \in inflight /\ r.op = "stats" /\ r.stage = 1
    /\ UNCHANGED <<tables, now, client, resp>>
    /\ \E byCategory \in StatsByCategory(The(r.user), r.req) :
           inflight' = (inflight \ {r}) \cup
               {[r EXCEPT !.stage = 2,
                          !.by_category = byCategory,
                          !.seen2 = {t \in transactions : t.user_id = The(r.user).id}]}

\* the third awaited query of GET /api/stats (daily) and the response
StatsDailyStep(r) ==
    /\ r \in inflight /\ r.op = "stats" /\ r.stage = 2
    /\ UNCHANGED <<tables, now, client>>
    /\ inflight' = inflight \ {r}
    /\ \E daily \in StatsDaily(The(r.user), now) :
           Reply("stats", r.header, r.user, r.req, 200,
                 [summary |-> StatsSummary(r.totals),
                  by_category |-> r.by_category,
                  daily |-> daily])

(***************************************************************************)
(* The requests the model sends                                            *)
(***************************************************************************)
ABC == <<"a", "b", "c">>

BOB == <<"b", "o", "b">>

SECRET == <<"s", "e", "c", "r", "e", "t">>

Bearer(token) == Some([prefix |-> "Bearer ", token |-> token])

\* the credential `id:username:issued`
Credential(id, username, issued) ==
    NumberToString(id) \o <<":">> \o username \o <<":">> \o NumberToString(issued)

TokenA == Bearer(btoa(Credential(1, ABC, StartDay)))

TokenB == Bearer(btoa(Credential(2, BOB, StartDay)))

Headers == {NULL, TokenA, TokenB}

RegisterBodies ==
    {[username |-> ABC, password |-> SECRET, confirm_password |-> SECRET],
     [username |-> BOB, password |-> SECRET, confirm_password |-> SECRET],
     [username |-> BOB, password |-> SECRET, confirm_password |-> ABC]}

D1 == <<2024, 1, 31>>

D2 == <<2024, 2, 15>>

D3 == <<2024, 3, 2>>

CreateBodies ==
    {[amount |-> 1, type |-> "income", category_id |-> 1, date |-> D1],
     [amount |-> 2, type |-> "expense", category_id |-> 5, note |-> "n", date |-> D2],
     [amount |-> 0, type |-> "income", category_id |-> 1, date |-> D1]}

UpdateBodies == {[amount |-> 2], [amount |-> 0], <<>>}

PathIds == {<<"1">>, <<"2">>}

ListQueries == {<<>>, [limit |-> <<"1">>]}

StatsQueries == {<<>>}

(***************************************************************************)
(* The app (saves-app).  src/api/client keeps the session in the module    *)
(* variable authToken and in two AsyncStorage items.  An async function    *)
(* runs up to an await and is suspended: calls holds the suspended calls,  *)
(* queue the storage operations they wait for.  AsyncStorage executes the  *)
(* operations in the order they were issued; a response of the API may     *)
(* arrive at any time.                                                     *)
(***************************************************************************)
server == <<tables, now, resp, inflight>>

session == <<authToken, storage, queue, calls>>

screens == <<isLoading, route>>

addScreen == <<addType, addCategories, selectedCategory, fetches, submitted>>

TOKEN_KEY == "saves_auth_token"

USER_KEY == "saves_user"

\* JSON.stringify of a User { id, username }
JSONstringify(user) ==
    <<"{", "\"", "i", "d", "\"", ":">> \o NumberToString(user.id) \o
    <<",", "\"", "u", "s", "e", "r", "n", "a", "m", "e", "\"", ":", "\"">> \o
    user.username \o <<"\"", "}">>

\* if (v): null and the empty string are falsy
Truthy(v) == v # NULL /\ The(v) # <<>>

\* the body of a 200 answer of /api/auth/login and /api/auth/register
AuthResponse(id, username, issued) ==
    [token |-> btoa(Credential(id, username, issued)),
     user |-> [id |-> id, username |-> username]]

AuthResponses ==
    {AuthResponse(1, ABC, t) : t \in StartDay..(StartDay + MaxTicks)} \cup
    {AuthResponse(2, BOB, t) : t \in StartDay..(StartDay + MaxTicks)}

NoData == [token |-> btoa(<<>>), user |-> [id |-> 0, username |-> <<>>]]

\* a handle for a new suspended call
FreeCall == CHOOSE i \in 1..(Cardinality(calls) + 1) : \A c \in calls : c.id # i

Suspend(c) == calls' = calls \cup {c}

Resume(c, d) == calls' = (calls \ {c}) \cup {d}

Return(c) == calls' = calls \ {c}

Issue(c, op, key, value) ==
    queue' = Append(queue, [call |-> c.id, op |-> op, key |-> key, value |-> value])

\* the operation at the head of the queue is executed: the promise that call c
\* awaits is settled
Executes(c) == queue # <<>> /\ Head(queue).call = c.id

\* the store after the operation at the head of the queue
Executed ==
    LET o == Head(queue)
    IN  IF o.op = "setItem" THEN [storage EXCEPT ![o.key] = Some(o.value)]
        ELSE IF o.op = "removeItem" THEN [storage EXCEPT ![o.key] = NULL]
        ELSE storage

\* request('/api/auth/...', { method: 'POST', .. }) is sent and awaited
authRequest(fn, caller) ==
    /\ Cardinality(calls) < MaxCalls
    /\ Suspend([id |-> FreeCall, fn |-> fn, pc |-> "request", caller |-> caller,
                token |-> NULL, data |-> NoData])
    /\ UNCHANGED <<authToken, storage, queue, screens, addScreen, monthRange, server>>

\* register(username, password, confirmPassword)
register(caller) == authRequest("register", caller)

\* login(username, password)
login(caller) == authRequest("login", caller)

\* the request is answered with an error: request throws, and so does login
loginFails(c) ==
    /\ c.fn \in {"login", "register"} /\ c.pc = "request"
    /\ Return(c)
    /\ UNCHANGED <<authToken, storage, queue, screens, addScreen, monthRange, server>>

\* the request is answered 200 with data: saveAuth(data.token, data.user)
\* sets authToken and awaits setItem(TOKEN_KEY)
saveAuth(c, data) ==
    /\ c.fn \in {"login", "register"} /\ c.pc = "request"
    /\ authToken' = Some(data.token)
    /\ Issue(c, "setItem", TOKEN_KEY, data.token)
    /\ Resume(c, [c EXCEPT !.pc = "token", !.data = data])
    /\ UNCHANGED <<storage, screens, addScreen, monthRange, server>>

\* setItem(TOKEN_KEY) is done: saveAuth awaits setItem(USER_KEY)
saveAuthUser(c) ==
    /\ c.fn \in {"login", "register"} /\ c.pc = "token"
    /\ Executes(c)
    /\ storage' = Executed
    /\ queue' = Append(Tail(queue), [call |-> c.id, op |-> "setItem", key |-> USER_KEY,
                                     value |-> JSONstringify(c.data.user)])
    /\ Resume(c, [c EXCEPT !.pc = "user"])
    /\ UNCHANGED <<authToken, screens, addScreen, monthRange, server>>

\* setItem(USER_KEY) is done: saveAuth and login return; handleLogin goes on
\* with router.replace('/(tabs)')
loginReturns(c) ==
    /\ c.fn \in {"login", "register"} /\ c.pc = "user"
    /\ Executes(c)
    /\ storage' = Executed
    /\ queue' = Tail(queue)
    /\ Return(c)
    /\ route' = IF c.caller = "screen" THEN "/(tabs)" ELSE route
    /\ UNCHANGED <<authToken, isLoading, addScreen, monthRange, server>>

\* logout(): clearAuth() resets authToken and awaits removeItem(TOKEN_KEY)
logout(caller) ==
    /\ Cardinality(calls) < MaxCalls
    /\ authToken' = NULL
    /\ LET c == [id |-> FreeCall, fn |-> "logout", pc |-> "token", caller |-> caller,
                 token |-> NULL, data |-> NoData]
       IN  Suspend(c) /\ Issue(c, "removeItem", TOKEN_KEY, <<>>)
    /\ UNCHANGED <<storage, screens, addScreen, monthRange, server>>

\* removeItem(TOKEN_KEY) is done: clearAuth awaits removeItem(USER_KEY)
clearAuthUser(c) ==
    /\ c.fn = "logout" /\ c.pc = "token"
    /\ Executes(c)
    /\ storage' = Executed
    /\ queue' = Append(Tail(queue), [call |-> c.id, op |-> "removeItem", key |-> USER_KEY,
                                     value |-> <<>>])
    /\ Resume(c, [c EXCEPT !.pc = "user"])
    /\ UNCHANGED <<authToken, screens, addScreen, monthRange, server>>

\* removeItem(USER_KEY) is done: clearAuth and logout return; handleLogout goes
\* on with router.replace('/login')
logoutReturns(c) ==
    /\ c.fn = "logout" /\ c.pc = "user"
    /\ Executes(c)
    /\ storage' = Executed
    /\ queue' = Tail(queue)
    /\ Return(c)
    /\ route' = IF c.caller = "screen" THEN "/login" ELSE route
    /\ UNCHANGED <<authToken, isLoading, addScreen, monthRange, server>>

\* initAuth(): awaits getItem(TOKEN_KEY)
initAuth(caller) ==
    /\ Cardinality(calls) < MaxCalls
    /\ LET c == [id |-> FreeCall, fn |-> "initAuth", pc |-> "token", caller |-> caller,
                 token |-> NULL, data |-> NoData]
       IN  Suspend(c) /\ Issue(c, "getItem", TOKEN_KEY, <<>>)
    /\ UNCHANGED <<authToken, storage, screens, addScreen, monthRange, server>>

\* getItem(TOKEN_KEY) is done: token holds what it read, initAuth awaits
\* getItem(USER_KEY)
initAuthUser(c) ==
    /\ c.fn = "initAuth" /\ c.pc = "token"
    /\ Executes(c)
    /\ queue' = Append(Tail(queue), [call |-> c.id, op |-> "getItem", key |-> USER_KEY,
                                     value |-> <<>>])
    /\ Resume(c, [c EXCEPT !.pc = "user", !.token = storage[TOKEN_KEY]])
    /\ UNCHANGED <<authToken, storage, screens, addScreen, monthRange, server>>

\* getItem(USER_KEY) is done: if (token && userStr) authToken = token; initAuth
\* returns (no caller reads the user it returns) and checkAuth goes on with
\* setIsLoading(false)
initAuthReturns(c) ==
    /\ c.fn = "initAuth" /\ c.pc = "user"
    /\ Executes(c)
    /\ queue' = Tail(queue)
    /\ authToken' = IF Truthy(c.token) /\ Truthy(storage[USER_KEY]) THEN c.token ELSE authToken
    /\ Return(c)
    /\ isLoading' = IF c.caller = "screen" THEN FALSE ELSE isLoading
    /\ UNCHANGED <<storage, route, addScreen, monthRange, server>>

\* getToken()
getToken == authToken

(***************************************************************************)
(* The screens.  RootLayout shows an indicator while isLoading and the     *)
(* Stack, with IndexScreen first, from then on.  The loading and           *)
(* loggingOut states that disable a button are true exactly while the call *)
(* of that button's handler is suspended.                                  *)
(***************************************************************************)
Pending(fn) == \E c \in calls : c.fn = fn /\ c.caller = "screen"

\* RootLayout: useEffect(() => { checkAuth() }, []) runs once, after the first
\* render
RootLayout ==
    /\ isLoading /\ ~Pending("initAuth")
    /\ initAuth("screen")

\* IndexScreen: the effect of the mounted screen reads the token and routes
IndexScreen_Unguarded ==
    /\ route = "index"
    /\ route' = IF Truthy(getToken) THEN "/(tabs)" ELSE "/login"
    /\ UNCHANGED <<session, isLoading, addScreen, monthRange, server>>

IndexScreen ==
    /\ ~isLoading
    /\ route = "index"
    /\ route' = IF Truthy(getToken) THEN "/(tabs)" ELSE "/login"
    /\ UNCHANGED <<session, isLoading, addScreen, monthRange, server>>

\* LoginScreen: handleLogin
handleLogin ==
    /\ route = "/login" /\ ~Pending("login")
    /\ login("screen")

\* LoginScreen: the link to the register screen, router.push('/register')
pushRegister ==
    /\ route = "/login"
    /\ route' = "/register"
    /\ UNCHANGED <<session, isLoading, addScreen, monthRange, server>>

\* RegisterScreen: handleRegister
handleRegister ==
    /\ route = "/register" /\ ~Pending("register")
    /\ register("screen")

\* the settings screen: handleLogout
handleLogout ==
    /\ route = "/(tabs)" /\ ~Pending("logout")
    /\ logout("screen")

(***************************************************************************)
(* AddScreen: the category list is loaded again by an effect whenever type *)
(* changes; each load awaits its own GET /api/categories?type=             *)
(***************************************************************************)
\* GET /api/categories?type= : SELECT * FROM categories WHERE type = ?
GetCategories(type) == {c \in categories : c.type = type}

FreeFetch == CHOOSE i \in 1..(Cardinality(fetches) + 1) : \A f \in fetches : f.id # i

\* loadCategories(): getCategories(type) is sent with the type of this render
loadCategories(type) ==
    fetches' = fetches \cup {[id |-> FreeFetch, type |-> type]}

\* the screen is mounted: type is 'expense' and the effect runs
AddScreen ==
    /\ addType = NULL
    /\ addType' = Some("expense")
    /\ loadCategories("expense")
    /\ UNCHANGED <<addCategories, selectedCategory, submitted, session, screens, monthRange, server>>

\* onPress of a type button: setType(type); a changed type runs the effect
setType(type) ==
    /\ addType # NULL /\ addType # Some(type)
    /\ Cardinality(fetches) < MaxFetches
    /\ addType' = Some(type)
    /\ loadCategories(type)
    /\ UNCHANGED <<addCategories, selectedCategory, submitted, session, screens, monthRange, server>>

\* a request is answered: setCategories(data); setSelectedCategory(null)
setCategories(f) ==
    /\ fetches' = fetches \ {f}
    /\ addCategories' = GetCategories(f.type)
    /\ selectedCategory' = NULL
    /\ UNCHANGED <<addType, submitted, session, screens, monthRange, server>>

\* onPress of a listed category
setSelectedCategory(id) ==
    /\ \E c \in addCategories : c.id = id
    /\ selectedCategory' = Some(id)
    /\ UNCHANGED <<addType, addCategories, fetches, submitted, session, screens, monthRange, server>>

NotSubmitted == [type |-> "none", category_id |-> 0]

\* handleSubmit with a valid amount: createTransaction({ type, category_id:
\* selectedCategory, .. }) is sent; resetForm() once it is answered 201
handleSubmit(created) ==
    /\ addType # NULL
    /\ selectedCategory # NULL /\ The(selectedCategory) # 0
    /\ submitted' = [type |-> The(addType), category_id |-> The(selectedCategory)]
    /\ selectedCategory' = IF created THEN NULL ELSE selectedCategory
    /\ UNCHANGED <<addType, addCategories, fetches, session, screens, monthRange, server>>

(***************************************************************************)
(* HomeScreen: the month sent to GET /api/stats.  A Date is a number of    *)
(* minutes since 2023-01-01T00:00Z; the device's local time is UTC plus    *)
(* offset minutes.                                                         *)
(***************************************************************************)
\* the days from 2023-01-01 to the first day of month m of year y
RECURSIVE DaysBefore(_, _)
DaysBefore(y, m) ==
    IF m > 1 THEN DaysBefore(y, m - 1) + DaysInMonth(y, m - 1)
    ELSE IF y > 2023 THEN DaysBefore(y - 1, 12) + DaysInMonth(y - 1, 12)
    ELSE 0

\* new Date(year, month, day): local midnight of that day, month counted from 0;
\* month 12 is January of the next year and day 0 the day before day 1
NewDate(year, month, day, offset) ==
    LET y == IF month > 11 THEN year + 1 ELSE year
        m == IF month > 11 THEN month - 11 ELSE month + 1
    IN  (DaysBefore(y, m) + day - 1) * (24 * 60) - offset

\* toISOString().split('T')[0]: the calendar day of the instant in UTC
ISODate(instant) == DayFrom(2023, 1, instant \div (24 * 60))

getMonthRange(date, offset) ==
    LET year == date[1]
        month == date[2] - 1
    IN  [start |-> ISODate(NewDate(year, month, 1, offset)),
         end |-> ISODate(NewDate(year, month + 1, 0, offset))]

NoRange == [date |-> <<0, 0, 0>>, offset |-> 0, start |-> <<0, 0, 0>>, end |-> <<0, 0, 0>>]

\* loadData(): getMonthRange() of the present day, on a device whose local time
\* is `date` at the given offset; the device keeps its offset from load to load
loadData(date, offset) ==
    /\ monthRange = NoRange \/ monthRange.offset = offset
    /\ LET r == getMonthRange(date, offset)
       IN  monthRange' = [date |-> date, offset |-> offset, start |-> r.start, end |-> r.end]
    /\ UNCHANGED <<session, screens, addScreen, server>>

(***************************************************************************)
(* The specification: every handler of the transaction and statistics API  *)
(***************************************************************************)
NoResponse ==
    [op |-> "none", header |-> NULL, user |-> NULL, req |-> <<>>, at |-> StartDay,
     status |-> 0, body |-> <<>>]

\* the API after deployment
InitAPI ==
    /\ users = {}
    /\ categories = SeedCategories
    /\ transactions = {}
    /\ nextTxId = 1
    /\ txCap = MaxTx
    /\ now = StartDay
    /\ resp = NoResponse
    /\ inflight = {}

\* the app when its process starts: nothing is mounted, no call was made
InitApp ==
    /\ authToken = NULL
    /\ queue = <<>>
    /\ calls = {}
    /\ isLoading = TRUE
    /\ route = "index"
    /\ addType = NULL
    /\ addCategories = {}
    /\ selectedCategory = NULL
    /\ fetches = {}
    /\ submitted = NotSubmitted
    /\ monthRange = NoRange

\* the app starts for the first time: nothing is persisted
Init ==
    /\ InitAPI
    /\ InitApp
    /\ storage = [k \in {TOKEN_KEY, USER_KEY} |-> NULL]

Next ==
    \/ \E b \in RegisterBodies : Register(NULL, b)
    \/ \E h \in Headers, q \in ListQueries : ListTx(h, q)
    \/ \E h \in Headers, b \in CreateBodies : CreateTx(h, b)
    \/ \E h \in Headers, id \in PathIds, b \in UpdateBodies : UpdateTx(h, id, b)
    \/ \E h \in Headers, id \in PathIds : DeleteTx(h, id)
    \/ \E h \in Headers, q \in StatsQueries : GetStats(h, q)
    \/ \E h \in Headers : GetMonthly(h)

Spec == Init /\ [][Next]_vars

(***************************************************************************)
(* The statistics specification: two users record and delete transactions  *)
(* of both types, in matching and in foreign categories, dated before, in  *)
(* and after the daily window, and read /api/stats as the clock moves on   *)
(***************************************************************************)
StatsHeaders == {TokenA, TokenB}

StatsRegisterBodies ==
    {[username |-> ABC, password |-> SECRET, confirm_password |-> SECRET],
     [username |-> BOB, password |-> SECRET, confirm_password |-> SECRET]}

StatsCreateBodies ==
    {[amount |-> 1, type |-> "income", category_id |-> 1, date |-> D1],
     [amount |-> 2, type |-> "expense", category_id |-> 5, note |-> "n", date |-> D2],
     [amount |-> 2, type |-> "income", category_id |-> 5, date |-> D3]}

StatsRangeQueries ==
    {<<>>, [start_date |-> D2, end_date |-> D3], [start_date |-> D2]}

NextStats ==
    \/ \E b \in StatsRegisterBodies : Register(NULL, b)
    \/ \E h \in StatsHeaders, b \in StatsCreateBodies : CreateTx(h, b)
    \/ \E h \in StatsHeaders, id \in PathIds : DeleteTx(h, id)
    \/ \E h \in StatsHeaders, q \in StatsRangeQueries : GetStats(h, q)
    \/ \E h \in StatsHeaders : GetMonthly(h)
    \/ Tick

SpecStats == Init /\ [][NextStats]_vars

(***************************************************************************)
(* The update specification: one user records transactions and replaces    *)
(* their fields one at a time and several at once                          *)
(***************************************************************************)
EditRegisterBodies ==
    {[username |-> ABC, password |-> SECRET, confirm_password |-> SECRET]}

EditCreateBodies ==
    {[amount |-> 1, type |-> "income", category_id |-> 1, note |-> "n", date |-> D1],
     [amount |-> 2, type |-> "expense", category_id |-> 5, date |-> D2]}

EditBodies ==
    {[amount |-> 2], [note |-> ""], [type |-> "expense", category_id |-> 5],
     [date |-> D3], [category_id |-> 13], [amount |-> 1, user_id |-> 2]}

NextUpdate ==
    \/ \E b \in EditRegisterBodies : Register(NULL, b)
    \/ \E b \in EditCreateBodies : CreateTx(TokenA, b)
    \/ \E id \in PathIds, b \in EditBodies : UpdateTx(TokenA, id, b)

SpecUpdate == Init /\ [][NextUpdate]_vars

(***************************************************************************)
(* The history specification: it starts from the store that a user's first *)
(* Preload accepted POSTs leave, two a month over consecutive months from  *)
(* 2020-01, all expenses but one income in the second month; the user then *)
(* records and deletes transactions and reads the list and the monthly     *)
(* statistics                                                              *)
(***************************************************************************)
PreloadedRow(i) ==
    LET k == (i - 1) \div 2
    IN  [id |-> i,
         amount |-> 1,
         type |-> IF i = 3 THEN "income" ELSE "expense",
         category_id |-> IF i = 3 THEN 1 ELSE 5,
         note |-> NULL,
         date |-> <<2020 + (k \div 12), (k % 12) + 1, 10 + 10 * ((i - 1) % 2)>>,
         user_id |-> 1]

InitHistory ==
    /\ users = {[id |-> 1, username |-> ABC, password_hash |-> hashPassword(SECRET)]}
    /\ categories = SeedCategories
    /\ transactions = {PreloadedRow(i) : i \in 1..Preload}
    /\ nextTxId = Preload + 1
    /\ txCap = Preload + MaxTx
    /\ now = StartDay
    /\ resp = NoResponse
    /\ inflight = {}
    /\ InitApp
    /\ storage = [k \in {TOKEN_KEY, USER_KEY} |-> NULL]

HistoryCreateBodies ==
    {[amount |-> 1, type |-> "income", category_id |-> 1, date |-> <<2019, 12, 31>>],
     [amount |-> 1, type |-> "income", category_id |-> 1, date |-> D2],
     [amount |-> 1, type |-> "expense", category_id |-> 5, date |-> <<2024, 13, 1>>]}

HistoryIds == {<<"1">>, <<"3">>, NumberToString(Preload + 1)}

HistoryQueries == {<<>>, [limit |-> <<"6", "0">>], [limit |-> <<"1">>, offset |-> <<"1">>]}

NextHistory ==
    \/ \E b \in HistoryCreateBodies : CreateTx(TokenA, b)
    \/ \E id \in HistoryIds : DeleteTx(TokenA, id)
    \/ \E q \in HistoryQueries : ListTx(TokenA, q)
    \/ GetMonthly(TokenA)

SpecHistory == InitHistory /\ [][NextHistory]_vars

(***************************************************************************)
(* The identity specification: callers register, log in and ask who they   *)
(* are with well-formed, truncated, malformed and foreign credentials      *)
(***************************************************************************)
AuthHeaders ==
    {NULL,
     Some([prefix |-> "Basic ", token |-> btoa(Credential(1, ABC, StartDay))]),
     Bearer([base64 |-> FALSE, text |-> Credential(1, ABC, StartDay)]),
     TokenA,
     TokenB,
     Bearer(btoa(<<"1", ":", "a", "b", "c">>)),
     Bearer(btoa(<<"1">>)),
     Bearer(btoa(<<>>)),
     Bearer(btoa(<<"x", ":", "a", "b", "c", ":", "6", "0">>)),
     Bearer(btoa(<<"1", "x", ":", "a", "b", "c", ":", "6", "0">>)),
     Bearer(btoa(Credential(2, ABC, StartDay)))}

AuthRegisterBodies ==
    {[username |-> ABC, password |-> SECRET, confirm_password |-> SECRET],
     [username |-> BOB, password |-> SECRET, confirm_password |-> SECRET]}

LoginBodies ==
    {[username |-> ABC, password |-> SECRET],
     [username |-> BOB, password |-> ABC],
     [username |-> <<>>, password |-> SECRET]}

NextAuth ==
    \/ \E h \in {NULL, TokenA}, b \in AuthRegisterBodies : Register(h, b)
    \/ \E h \in {NULL, TokenB}, b \in LoginBodies : Login(h, b)
    \/ \E h \in AuthHeaders : Me(h)
    \/ Tick

SpecAuth == Init /\ [][NextAuth]_vars

(***************************************************************************)
(* The list specification: two users record transactions, two of them on   *)
(* the same day, and page through GET /api/transactions with and without   *)
(* filters                                                                 *)
(***************************************************************************)
ListCreateBodies ==
    {[amount |-> 1, type |-> "income", category_id |-> 1, date |-> D2],
     [amount |-> 2, type |-> "expense", category_id |-> 5, date |-> D2],
     [amount |-> 2, type |-> "expense", category_id |-> 5, date |-> D1]}

PageQueries ==
    {<<>>,
     [limit |-> <<"1">>],
     [limit |-> <<"1">>, offset |-> <<"1">>],
     [limit |-> <<"1">>, offset |-> <<"2">>],
     [type |-> "expense"],
     [type |-> "", start_date |-> D2],
     [end_date |-> D1, limit |-> <<"2">>]}

NextList ==
    \/ \E b \in StatsRegisterBodies : Register(NULL, b)
    \/ \E h \in StatsHeaders, b \in ListCreateBodies : CreateTx(h, b)
    \/ \E h \in StatsHeaders, q \in PageQueries : ListTx(h, q)

SpecList == Init /\ [][NextList]_vars

(***************************************************************************)
(* The registration specification: registrations run in steps, so that two *)
(* of them can both have passed the username check before either inserts   *)
(***************************************************************************)
NextRegister ==
    \/ \E h \in {NULL, TokenA}, b \in RegisterBodies : RegisterSelect(h, b)
    \/ \E r \in inflight : RegisterInsert(r)
    \/ \E h \in {NULL, TokenA, TokenB} : Me(h)

SpecRegister == Init /\ [][NextRegister]_vars

(***************************************************************************)
(* The snapshot specification: a user records and deletes transactions     *)
(* while GET /api/stats requests of the same user run query by query       *)
(***************************************************************************)
SnapshotCreateBodies ==
    {[amount |-> 1, type |-> "income", category_id |-> 1, date |-> D2],
     [amount |-> 2, type |-> "expense", category_id |-> 5, date |-> D1]}

SnapshotQueries == {[start_date |-> D2, end_date |-> D3]}

NextSnapshot ==
    \/ \E b \in EditRegisterBodies : Register(NULL, b)
    \/ \E b \in SnapshotCreateBodies : CreateTx(TokenA, b)
    \/ \E id \in PathIds : DeleteTx(TokenA, id)
    \/ \E q \in SnapshotQueries : StatsTotalsStep(TokenA, q)
    \/ \E r \in inflight : StatsCategoryStep(r)
    \/ \E r \in inflight : StatsDailyStep(r)

SpecSnapshot == Init /\ [][NextSnapshot]_vars

(***************************************************************************)
(* The ownership specification: two users record transactions and update   *)
(* their own and each other's with bodies that carry a user_id key         *)
(***************************************************************************)
OwnerCreateBodies ==
    {[amount |-> 1, type |-> "income", category_id |-> 1, date |-> D1, user_id |-> 2],
     [amount |-> 2, type |-> "expense", category_id |-> 5, date |-> D2, user_id |-> 1]}

OwnerUpdateBodies ==
    {[amount |-> 2, user_id |-> 2], [date |-> D3, user_id |-> 1], [user_id |-> 2]}

NextOwner ==
    \/ \E b \in StatsRegisterBodies : Register(NULL, b)
    \/ \E h \in StatsHeaders, b \in OwnerCreateBodies : CreateTx(h, b)
    \/ \E h \in StatsHeaders, id \in PathIds, b \in OwnerUpdateBodies : UpdateTx(h, id, b)

SpecOwner == Init /\ [][NextOwner]_vars

(***************************************************************************)
(* The session specification: the functions of src/api/client called in    *)
(* any order, a call being made while others are suspended                 *)
(***************************************************************************)
NextSession ==
    \/ register("api")
    \/ login("api")
    \/ logout("api")
    \/ initAuth("api")
    \/ \E c \in calls : loginFails(c)
    \/ \E c \in calls, d \in AuthResponses : saveAuth(c, d)
    \/ \E c \in calls : saveAuthUser(c)
    \/ \E c \in calls : loginReturns(c)
    \/ \E c \in calls : clearAuthUser(c)
    \/ \E c \in calls : logoutReturns(c)
    \/ \E c \in calls : initAuthUser(c)
    \/ \E c \in calls : initAuthReturns(c)

SpecSession == Init /\ [][NextSession]_vars

(***************************************************************************)
(* The start-up specification: the app starts with whatever an earlier run *)
(* left in AsyncStorage, RootLayout and IndexScreen run their effects, and *)
(* the user logs in and out from the screen they are routed to             *)
(***************************************************************************)
Persisted ==
    {[k \in {TOKEN_KEY, USER_KEY} |-> IF k = TOKEN_KEY THEN t ELSE u] :
        t \in {NULL} \cup {Some(r.token) : r \in AuthResponses},
        u \in {NULL} \cup {Some(JSONstringify(r.user)) : r \in AuthResponses}}

InitStartup ==
    /\ InitAPI
    /\ InitApp
    /\ storage \in Persisted

NextStartup ==
    \/ RootLayout
    \/ IndexScreen
    \/ handleLogin
    \/ pushRegister
    \/ handleRegister
    \/ handleLogout
    \/ \E c \in calls : loginFails(c)
    \/ \E c \in calls, d \in AuthResponses : saveAuth(c, d)
    \/ \E c \in calls : saveAuthUser(c)
    \/ \E c \in calls : loginReturns(c)
    \/ \E c \in calls : clearAuthUser(c)
    \/ \E c \in calls : logoutReturns(c)
    \/ \E c \in calls : initAuthUser(c)
    \/ \E c \in calls : initAuthReturns(c)

SpecStartup == InitStartup /\ [][NextStartup]_vars

(***************************************************************************)
(* The add-transaction specification: the user switches the type, picks a  *)
(* listed category and submits, while category requests are answered in    *)
(* any order                                                               *)
(***************************************************************************)
NextAdd ==
    \/ AddScreen
    \/ \E t \in Types : setType(t)
    \/ \E f \in fetches : setCategories(f)
    \/ \E c \in SeedCategories : setSelectedCategory(c.id)
    \/ \E created \in BOOLEAN : handleSubmit(created)

SpecAdd == Init /\ [][NextAdd]_vars

(***************************************************************************)
(* The month-range specification: HomeScreen loads its data on any day of  *)
(* two years, one of them a leap year, on devices west of, at and east of  *)
(* UTC                                                                     *)
(***************************************************************************)
MonthDates == {<<y, m, d>> : y \in {2024, 2025}, m \in 1..12, d \in {1, 15, 28}}

\* UTC-12:00, -05:00, +00:00, +05:30, +08:00 and +14:00
Offsets == {0 - 720, 0 - 300, 0, 330, 480, 840}

NextMonth == \E date \in MonthDates, offset \in Offsets : loadData(date, offset)

SpecMonth == Init /\ [][NextMonth]_vars

(***************************************************************************)
(* Properties                                                              *)
(***************************************************************************)
Protected == {"list", "create", "update", "delete", "stats", "monthly"}

\* the rows of table t that user uid owns
Own(t, uid) == {r \in t : r.user_id = uid}

RECURSIVE SumTotal(_)
SumTotal(rows) == IF rows = <<>> THEN 0 ELSE Head(rows).total + SumTotal(Tail(rows))

RECURSIVE SumCount(_)
SumCount(rows) == IF rows = <<>> THEN 0 ELSE Head(rows).count + SumCount(Tail(rows))

InRange(t, q) ==
    Has(q, "start_date") /\ Has(q, "end_date") =>
        DateLE(q.start_date, t.date) /\ DateLE(t.date, q.end_date)

\* C1: no request of a user lists, counts, modifies or removes a transaction
\* of another user.  In every step: a row that the step changed, removed or
\* added is owned by the user the request was resolved to; every row of a
\* list response is owned by that user; and the summary, by_category, daily
\* and monthly sections account for that user's rows and nothing more.
C1_Step ==
    LET uid == The(resp'.user).id
        own == Own(transactions', uid)
        b == resp'.body
    IN  /\ \A t \in (transactions \ transactions') \cup (transactions' \ transactions) :
               resp'.user # NULL /\ t.user_id = uid
        /\ (resp'.op = "list" /\ resp'.status = 200) =>
               \A i \in 1..Len(b.rows) : b.rows[i].user_id = uid
        /\ (resp'.op = "stats" /\ resp'.status = 200) =>
               LET match == {t \in own : InRange(t, resp'.req)}
                   recent == {t \in own : DateLE(DateOfDay(resp'.at - DailyWindow), t.date)}
               IN  /\ b.summary.income + b.summary.expense = SumAmount(match)
                   /\ b.summary.income_count + b.summary.expense_count = Cardinality(match)
                   /\ SumTotal(b.by_category) = SumAmount(match)
                   /\ SumCount(b.by_category) = Cardinality(match)
                   /\ SumTotal(b.daily) = SumAmount(recent)
        /\ (resp'.op = "monthly" /\ resp'.status = 200) =>
               /\ SumTotal(b.rows) <= SumAmount(own)
               /\ SumCount(b.rows) <= Cardinality(own)
               /\ Len(b.rows) < MonthlyLimit =>
                      SumTotal(b.rows) = SumAmount(own) /\ SumCount(b.rows) = Cardinality(own)

C1_Isolation == [][C1_Step]_vars

\* a user is given a non-empty list while the store holds another user's transaction
C1_Witness ==
    /\ resp.op = "list" /\ resp.status = 200 /\ Len(resp.body.rows) > 0
    /\ \E t \in transactions : t.user_id # The(resp.user).id

\* the request of the step was a PUT or DELETE by a resolved user for an id
\* under which that user owned no row when the request arrived
MissedRow ==
    /\ resp'.op \in {"update", "delete"}
    /\ resp'.user # NULL
    /\ ~\E t \in transactions :
           Some(t.id) = ParseInt(resp'.req.id) /\ t.user_id = The(resp'.user).id

\* C5 as stated: a PUT or DELETE for an id under which the acting user owns no
\* transaction is answered 404.
C5_Original == [][MissedRow => resp'.status = 404]_vars

\* C5 as amended: such a DELETE, and such a PUT whose body passes the validator
\* and sets a field, is answered 404; such a PUT whose body fails the validator
\* or sets no field is answered 400; none is a success and none touches the store.
C5_NotFound ==
    [][MissedRow =>
        LET rejected == resp'.op = "update" /\
                        (~partialTransactionSchema(resp'.req.body)
                         \/ DOMAIN resp'.req.body \cap TxFields = {})
        IN  /\ resp'.status = (IF rejected THEN 400 ELSE 404)
            /\ transactions' = transactions]_vars

\* a user's DELETE of an id that another user owns was answered 404
C5_Witness ==
    /\ resp.op = "delete" /\ resp.status = 404 /\ resp.user # NULL
    /\ \E t \in transactions :
           Some(t.id) = ParseInt(resp.req.id) /\ t.user_id # The(resp.user).id

\* C9 as stated: a request to a protected route whose credential is absent or
\* resolves to no user is answered 401, whatever its body.
C9_Original ==
    (resp.op \in Protected /\ resp.user = NULL) => resp.status = 401

\* a 200 response of GET /api/stats
StatsAnswered == resp.op = "stats" /\ resp.status = 200

\* the acting user's stored transactions that the request's range keeps
Matching == {t \in Own(transactions, The(resp.user).id) : InRange(t, resp.req)}

RECURSIVE RowsOfType(_, _)
RowsOfType(rows, ty) ==
    IF rows = <<>> THEN <<>>
    ELSE (IF Head(rows).type = ty THEN <<Head(rows)>> ELSE <<>>) \o RowsOfType(Tail(rows), ty)

\* C3 as stated: in one response of GET /api/stats, for each type the totals of
\* the by_category rows of that type add up to the summary total of that type.
C3_Original ==
    StatsAnswered =>
        /\ SumTotal(RowsOfType(resp.body.by_category, "income")) = resp.body.summary.income
        /\ SumTotal(RowsOfType(resp.body.by_category, "expense")) = resp.body.summary.expense

\* C8 as stated: every row of daily is dated within the 30 days that end at
\* the day of the request.
C8_Original ==
    StatsAnswered =>
        \A i \in 1..Len(resp.body.daily) :
            /\ DateLE(DateOfDay(resp.at - DailyWindow), resp.body.daily[i].date)
            /\ DateLE(resp.body.daily[i].date, DateOfDay(resp.at))

\* C6: a successful PUT changes, in the one row it names, the fields its body
\* holds to the values the body gives them (an empty note is stored as NULL),
\* and leaves the other fields of that row, and every other row, as they were.
C6_Step ==
    (resp'.op = "update" /\ resp'.status = 200) =>
        LET body == resp'.req.body
        IN  \E t \in transactions :
            \E n \in transactions' :
                /\ Some(t.id) = ParseInt(resp'.req.id)
                /\ transactions' \ {n} = transactions \ {t}
                /\ n = resp'.body
                /\ \A f \in DOMAIN t \ (DOMAIN body \cap TxFields) : n[f] = t[f]
                /\ \A f \in {"amount", "type", "category_id", "date"} \cap DOMAIN body :
                       n[f] = body[f]
                /\ Has(body, "note") => n.note = (IF body.note = "" THEN NULL ELSE {body.note})

C6_Frame == [][C6_Step]_vars

\* a PUT of the amount alone was answered 200 for the income row, which
\* was created with amount 1 and has a note, while the store holds a second row
C6_Witness ==
    /\ resp.op = "update" /\ resp.status = 200
    /\ DOMAIN resp.req.body = {"amount"}
    /\ resp.body.type = "income" /\ resp.body.note # NULL /\ resp.body.amount = 2
    /\ Cardinality(transactions) = 2

\* the ids of the rows of a list response
ListedIds(rows) == {rows[i].id : i \in 1..Len(rows)}

\* this step is a 200 response of GET /api/transactions to the user whose
\* request the previous response (op, status) answered
ListAfter(op, status) ==
    /\ resp.op = op /\ resp.status = status
    /\ resp'.op = "list" /\ resp'.status = 200
    /\ resp'.user = resp.user

\* C4 as stated: the GET /api/transactions that follows a successful POST of
\* the same user includes the created transaction, and the one that follows a
\* successful DELETE does not include the deleted one.  (The GET is taken
\* without parameters.)
C4_Original ==
    [][/\ (ListAfter("create", 201) /\ resp'.req = <<>>) =>
              resp.body.id \in ListedIds(resp'.body.rows)
       /\ ListAfter("delete", 200) =>
              \A id \in ListedIds(resp'.body.rows) : Some(id) # ParseInt(resp.req.id)]_vars

\* the user's stored rows that pass the filters of query q
Filtered(t, uid, q) ==
    {r \in Own(t, uid) :
        /\ (Has(q, "type") /\ q.type # "" => r.type = q.type)
        /\ (Has(q, "start_date") => DateLE(q.start_date, r.date))
        /\ (Has(q, "end_date") => DateLE(r.date, q.end_date))}

\* r is listed ahead of s: a later date, or the same date and a larger id
Ahead(r, s) == IF r.date = s.date THEN r.id > s.id ELSE DateLE(s.date, r.date)

\* C4 as amended: the GET that follows a successful POST of the same user
\* includes the created transaction exactly when it passes the GET's filters
\* and the number of the user's filtered transactions listed ahead of it is at
\* least offset and less than offset + limit (defaults 0 and 50); the GET that
\* follows a successful DELETE never includes the deleted transaction.
C4_ReadAfterWrite ==
    [][/\ ListAfter("create", 201) =>
              LET q == resp'.req
                  limit == The(ParseInt(IF Has(q, "limit") THEN q.limit ELSE <<"5", "0">>))
                  offset == The(ParseInt(IF Has(q, "offset") THEN q.offset ELSE <<"0">>))
                  rows == Filtered(transactions', The(resp'.user).id, q)
                  ahead == Cardinality({r \in rows : Ahead(r, resp.body)})
              IN  resp.body.id \in ListedIds(resp'.body.rows) <=>
                      /\ resp.body \in rows
                      /\ offset <= ahead /\ ahead < offset + limit
       /\ ListAfter("delete", 200) =>
              \A id \in ListedIds(resp'.body.rows) : Some(id) # ParseInt(resp.req.id)]_vars

\* a full default page that holds a transaction created on top of the
\* preloaded ones, while the user has more rows than the page
C4_Witness ==
    /\ resp.op = "list" /\ resp.status = 200 /\ resp.req = <<>>
    /\ Len(resp.body.rows) = 50
    /\ Cardinality(Own(transactions, The(resp.user).id)) > 50
    /\ \E id \in ListedIds(resp.body.rows) : id > Preload

\* the (month, type) groups of the acting user's stored transactions
MonthGroups ==
    {<<strftimeMonth(t.date), t.type>> : t \in Own(transactions, The(resp.user).id)}

\* C7: a response of GET /api/stats/monthly has at most 24 rows (24 when the
\* user has that many groups), one per group, in non-increasing month order
\* (a month that SQLite cannot read is NULL and sorts last), and no group it
\* leaves out has a later month than a row it returns.
C7_Monthly ==
    (resp.op = "monthly" /\ resp.status = 200) =>
        LET b == resp.body.rows
            returned == {<<b[i].month, b[i].type>> : i \in 1..Len(b)}
        IN  /\ Len(b) <= 24
            /\ Cardinality(MonthGroups) > 24 => Len(b) = 24
            /\ Cardinality(returned) = Len(b) /\ returned \subseteq MonthGroups
            /\ \A i, j \in 1..Len(b) : i < j => MonthLE(b[j].month, b[i].month)
            /\ \A g \in MonthGroups \ returned : \A i \in 1..Len(b) : MonthLE(g[1], b[i].month)

\* the monthly response was cut at 24 rows between the two groups of one month
C7_Witness ==
    /\ resp.op = "monthly" /\ resp.status = 200
    /\ Len(resp.body.rows) = 24
    /\ \E g \in MonthGroups :
           /\ g[1] = resp.body.rows[24].month
           /\ g[2] # resp.body.rows[24].type

\* the credential of a header in the documented format: 'Bearer ' and base64 text
\* of at least three colon-separated fields, the first one a decimal number
AllDigits(s) == s # <<>> /\ \A i \in 1..Len(s) : DigitVal(s[i], 10) >= 0

Fields(header) ==
    IF header = NULL \/ The(header).prefix # "Bearer " \/ ~The(header).token.base64
    THEN <<>>
    ELSE Split(The(header).token.text, ":")

\* C10 (as claimed): whatever the Authorization header (missing, not 'Bearer ',
\* not base64, fewer than three colon-separated fields, non-numeric id, an
\* id/username pair matching no user) the identity gate sets the identity to
\* null; the identity is non-null only for a credential of three fields whose
\* numeric id and username are those of an existing user.
C10_Original ==
    (resp.op # "none" /\ resp.user # NULL) =>
        LET f == Fields(resp.header)
        IN  /\ Len(f) >= 3
            /\ AllDigits(f[1])
            /\ \E u \in users : NumberToString(u.id) = f[1] /\ u.username = f[2]
            /\ The(resp.user).username = f[2]
            /\ NumberToString(The(resp.user).id) = f[1]

\* the response r hands out a token
Issued(r) == (r.op = "register" /\ r.status = 201) \/ (r.op = "login" /\ r.status = 200)

\* the days on which a token can have been issued
IssueDays == StartDay..(StartDay + MaxTicks)

\* C11: a token that register or login returns is the credential of a stored
\* user, returned with that user's {id, username}; no step removes or renames
\* a user; and at every moment every credential of a stored user, whatever day
\* it was issued, resolves to that user's {id, username}.  So an issued token
\* resolves to the same identity on every later request, whatever any user
\* does and however much time passes: nothing expires or revokes it.
C11_Step ==
    /\ users \subseteq users'
    /\ Issued(resp') =>
           \E u \in users' :
               /\ resp'.body.user = [id |-> u.id, username |-> u.username]
               /\ resp'.body.token = btoa(Credential(u.id, u.username, resp'.at))
               /\ resp'.at \in IssueDays
    /\ \A u \in users, t \in IssueDays :
           authMiddleware(Bearer(btoa(Credential(u.id, u.username, t))))
               = Some([id |-> u.id, username |-> u.username])

C11_TokenStable == [][C11_Step]_vars

\* the token issued to the first user on the first day still resolves on a
\* later day, after a second user has registered
C11_Witness ==
    /\ resp.op = "me" /\ resp.status = 200
    /\ resp.header = TokenA
    /\ resp.at > StartDay
    /\ Cardinality(users) = 2

\* this step is a POST /api/auth/login and its response
LoginStep == resp'.op = "login" /\ resp' # resp

\* the stored users with the username and the password hash of the login request
Matches(req) ==
    {u \in users : u.username = req.username /\ u.password_hash = hashPassword(req.password)}

\* the login response is 200 with the matching user and a token that resolves to it
LoginGranted(r) ==
    /\ r.status = 200
    /\ \E u \in Matches(r.req) : r.body.user = [id |-> u.id, username |-> u.username]
    /\ Has(r.body, "token")
    /\ authMiddleware(Bearer(r.body.token)) = Some(r.body.user)

\* C13 (as claimed): login returns 200 with the user and a token resolving to
\* that user exactly when a user with the username exists whose stored hash is
\* the hash of the password; in every other case it returns 401 and no token;
\* it never changes the store.
C13_Original ==
    [][LoginStep =>
          /\ tables' = tables
          /\ IF Matches(resp'.req) # {} THEN LoginGranted(resp')
             ELSE resp'.status = 401 /\ ~Has(resp'.body, "token")]_vars

\* C13 (as amended): a login whose body passes validation returns 200 with the
\* user and a token resolving to that user exactly when a user with the
\* username exists whose stored hash is the hash of the password, and 401 with
\* no token otherwise; a login whose body fails validation returns 400 with no
\* token; it never changes the store.
C13_Login ==
    [][LoginStep =>
          /\ tables' = tables
          /\ IF ~loginSchema(resp'.req)
             THEN resp'.status = 400 /\ ~Has(resp'.body, "token")
             ELSE IF Matches(resp'.req) # {} THEN LoginGranted(resp')
             ELSE resp'.status = 401 /\ ~Has(resp'.body, "token")]_vars

\* a login is granted while another user, whose password differs, is stored
C13_Witness ==
    /\ resp.op = "login" /\ resp.status = 200
    /\ resp.body.user.username = ABC
    /\ \E u \in users : u.username = BOB

\* the acting user's stored transactions
Mine == Own(transactions, The(resp.user).id)

\* C14: when the user has no matching transaction of a type, GET /api/stats
\* reports total 0 and count 0 for that type; when the user has no
\* transactions at all, income, expense, balance and both counts are 0 and
\* by_category and daily are empty, and so is the monthly breakdown.
C14_Empty ==
    /\ StatsAnswered =>
           LET s == resp.body.summary
           IN  /\ ({t \in Matching : t.type = "income"} = {} =>
                       s.income = 0 /\ s.income_count = 0)
               /\ ({t \in Matching : t.type = "expense"} = {} =>
                       s.expense = 0 /\ s.expense_count = 0)
               /\ (Mine = {} =>
                       /\ s = [income |-> 0, expense |-> 0, balance |-> 0,
                               income_count |-> 0, expense_count |-> 0]
                       /\ resp.body.by_category = <<>>
                       /\ resp.body.daily = <<>>)
    /\ (resp.op = "monthly" /\ resp.status = 200 /\ Mine = {}) => resp.body.rows = <<>>

\* statistics of a user without transactions while another user has some
C14_Witness ==
    /\ StatsAnswered
    /\ Mine = {}
    /\ transactions # {}
    /\ resp.body.summary.balance = 0
    /\ resp.body.daily = <<>>

\* C15: for a user whose only transaction is an expense of amount a in
\* category k dated d, GET /api/stats with start_date <= d <= end_date returns
\* expense a, expense_count 1, income 0, and a by_category row for k with
\* total a and count 1.
C15_EndToEnd ==
    \A t \in transactions :
        (/\ StatsAnswered
         /\ Mine = {t}
         /\ t.type = "expense"
         /\ Has(resp.req, "start_date") /\ Has(resp.req, "end_date")
         /\ DateLE(resp.req.start_date, t.date) /\ DateLE(t.date, resp.req.end_date))
        => /\ resp.body.summary.expense = t.amount
           /\ resp.body.summary.expense_count = 1
           /\ resp.body.summary.income = 0
           /\ \E i \in 1..Len(resp.body.by_category) :
                  /\ resp.body.by_category[i].id = t.category_id
                  /\ resp.body.by_category[i].total = t.amount
                  /\ resp.body.by_category[i].count = 1

\* the ranged statistics of a user whose only transaction is an expense dated
\* on the first day of the range
C15_Witness ==
    /\ StatsAnswered
    /\ Has(resp.req, "start_date") /\ Has(resp.req, "end_date")
    /\ \E t \in Mine : Mine = {t} /\ t.type = "expense" /\ t.date = resp.req.start_date
    /\ resp.body.summary.expense_count = 1

\* the user's transactions dated from start_date to end_date, both included
Between == {t \in Mine : DateLE(resp.req.start_date, t.date) /\ DateLE(t.date, resp.req.end_date)}

\* C16: with start_date and end_date both supplied, summary and by_category
\* aggregate exactly the user's transactions with start_date <= date <=
\* end_date: one dated exactly start_date or end_date is included, one dated
\* outside is not.
C16_Closed ==
    (StatsAnswered /\ Has(resp.req, "start_date") /\ Has(resp.req, "end_date")) =>
        LET s == resp.body.summary
            b == resp.body.by_category
        IN  /\ s.income + s.expense = SumAmount(Between)
            /\ s.income_count + s.expense_count = Cardinality(Between)
            /\ SumTotal(b) = SumAmount(Between)
            /\ SumCount(b) = Cardinality(Between)
            /\ {b[i].id : i \in 1..Len(b)} = {t.category_id : t \in Between}

\* both a transaction dated exactly start_date and one dated exactly end_date
\* are counted
C16_Witness ==
    /\ StatsAnswered /\ Has(resp.req, "start_date") /\ Has(resp.req, "end_date")
    /\ resp.req.start_date # resp.req.end_date
    /\ \E t \in Mine : t.date = resp.req.start_date
    /\ \E t \in Mine : t.date = resp.req.end_date
    /\ SumCount(resp.body.by_category) = 2

\* the user's transactions that every supplied bound keeps, each bound on its own
Bounded ==
    {t \in Mine :
        /\ (Has(resp.req, "start_date") => DateLE(resp.req.start_date, t.date))
        /\ (Has(resp.req, "end_date") => DateLE(t.date, resp.req.end_date))}

\* C17 (as claimed): summary and by_category of GET /api/stats never count a
\* transaction dated before a supplied start_date or after a supplied end_date,
\* also when only one of the two bounds is supplied.
C17_Original ==
    StatsAnswered =>
        /\ resp.body.summary.income_count + resp.body.summary.expense_count
               <= Cardinality(Bounded)
        /\ SumCount(resp.body.by_category) <= Cardinality(Bounded)

\* C20: by_category has exactly one row per category that a matching
\* transaction of the user refers to, with the sum and the number of those
\* transactions as total and count, in non-increasing order of total.
C20_ByCategory ==
    StatsAnswered =>
        LET b == resp.body.by_category
            of(cid) == {t \in Matching : t.category_id = cid}
        IN  /\ \A i, j \in 1..Len(b) : b[i].id = b[j].id => i = j
            /\ {b[i].id : i \in 1..Len(b)} = {t.category_id : t \in Matching}
            /\ \A i \in 1..Len(b) :
                   b[i].total = SumAmount(of(b[i].id)) /\ b[i].count = Cardinality(of(b[i].id))
            /\ \A i \in 1..(Len(b) - 1) : b[i].total >= b[i + 1].total

\* two categories with different totals, the larger one first
C20_Witness ==
    /\ StatsAnswered
    /\ Len(resp.body.by_category) = 2
    /\ resp.body.by_category[1].total > resp.body.by_category[2].total

\* the page size the model pages with
PageSizes == {1, 2}

\* the pages of size L at offsets 0, L, 2L, ... of the list request q of user
\* uid on the present store, one after the other
RECURSIVE PagesFrom(_, _, _, _, _)
PagesFrom(uid, q, L, k, n) ==
    IF k * L > n THEN <<>>
    ELSE LET paged == [f \in (DOMAIN q \cup {"limit", "offset"}) |->
                          IF f = "limit" THEN NumberToString(L)
                          ELSE IF f = "offset" THEN NumberToString(k * L)
                          ELSE q[f]]
             page == CHOOSE rows \in ListRows([id |-> uid], paged) : TRUE
         IN  page \o PagesFrom(uid, q, L, k + 1, n)

\* C19: a GET /api/transactions response holds only transactions of the acting
\* user that pass every supplied filter, in date-descending then id-descending
\* order, at most `limit` of them (default 50), namely those with at least
\* `offset` (default 0) and fewer than offset + limit matching transactions
\* ahead of them; and on an unchanged store the pages at offsets 0, L, 2L, ...
\* together hold every matching transaction exactly once.
C19_Pages ==
    (resp.op = "list" /\ resp.status = 200) =>
        LET q == resp.req
            uid == The(resp.user).id
            limit == The(ParseInt(IF Has(q, "limit") THEN q.limit ELSE <<"5", "0">>))
            offset == The(ParseInt(IF Has(q, "offset") THEN q.offset ELSE <<"0">>))
            rows == Filtered(transactions, uid, q)
            b == resp.body.rows
        IN  /\ \A i \in 1..Len(b) : [f \in TxFields \cup {"id", "user_id"} |-> b[i][f]] \in rows
            /\ \A i, j \in 1..Len(b) : i < j => Ahead(b[i], b[j])
            /\ Len(b) <= limit
            /\ ListedIds(b) =
                   {r.id : r \in {x \in rows :
                       LET ahead == Cardinality({y \in rows : Ahead(y, x)})
                       IN  offset <= ahead /\ ahead < offset + limit}}
            /\ \A L \in PageSizes :
                   LET all == PagesFrom(uid, q, L, 0, Cardinality(rows))
                   IN  /\ Len(all) = Cardinality(rows)
                       /\ ListedIds(all) = {r.id : r \in rows}

\* the second page of size 1 of a user with two transactions on the same day
C19_Witness ==
    /\ resp.op = "list" /\ resp.status = 200
    /\ Has(resp.req, "offset") /\ resp.req.offset = <<"1">>
    /\ Len(resp.body.rows) = 1
    /\ \E t \in Mine : t.id # resp.body.rows[1].id /\ t.date = resp.body.rows[1].date

\* this step answers a POST /api/auth/register
RegisterStep == resp'.op = "register" /\ resp' # resp

\* C12 (as claimed): a register whose username a stored user holds is answered
\* 400 and adds no user, and no two users share a username, in every
\* interleaving: of two concurrent registrations of one new username one is
\* answered 201 and the other 400.
C12_Original ==
    [][/\ \A u, v \in users' : u.username = v.username => u = v
       /\ RegisterStep =>
              /\ resp'.status \in {201, 400}
              /\ (\E u \in users : u.username = resp'.req.username) =>
                     resp'.status = 400 /\ users' = users]_vars

\* this step is the last of the GET /api/stats request r
StatsDone(r) == r \in inflight /\ r.op = "stats" /\ r.stage = 2 /\ r \notin inflight'

\* by_category of the response counts as many transactions, of the same
\* total amount, as its summary
SectionsAgree(body) ==
    /\ SumCount(body.by_category) = body.summary.income_count + body.summary.expense_count
    /\ SumTotal(body.by_category) = body.summary.income + body.summary.expense

\* C18: a GET /api/stats response whose by_category and summary count
\* different transactions is one between whose first and second query the
\* user's stored transactions changed; and such a response is reachable (the
\* witness): the sections of one response can come from different store states.
C18_Torn ==
    [][\A r \in inflight :
          StatsDone(r) =>
              /\ resp'.op = "stats" /\ resp'.status = 200
              /\ (r.seen1 = r.seen2 => SectionsAgree(resp'.body))]_vars

\* a response whose by_category counts a transaction that its summary does not
C18_Witness ==
    /\ StatsAnswered
    /\ SumCount(resp.body.by_category)
           > resp.body.summary.income_count + resp.body.summary.expense_count

\* this step answers a request
Answered == resp' # resp

\* C21: GET /api/stats, GET /api/stats/monthly and GET /api/transactions are
\* read-only: the users, categories and transactions after the request are
\* the ones before it.
C21_ReadOnly ==
    [][(Answered /\ resp'.op \in {"stats", "monthly", "list"}) =>
          /\ users' = users
          /\ categories' = categories
          /\ transactions' = transactions]_vars

\* a list that returned both transactions of its user, which are still stored
C21_Witness ==
    /\ resp.op = "list" /\ resp.status = 200
    /\ Len(resp.body.rows) = 2
    /\ ListedIds(resp.body.rows) = {t.id : t \in Mine}

\* C22: every stored transaction has amount > 0, a type of income or expense
\* and a date of the shape YYYY-MM-DD, whatever POST and PUT requests were
\* accepted and rejected.
C22_Valid ==
    \A t \in transactions :
        t.amount > 0 /\ t.type \in {"income", "expense"} /\ DateShape(t.date)

\* a PUT that would set amount 0 on a stored transaction of its user was rejected
C22_Witness ==
    /\ resp.op = "update" /\ resp.status = 400 /\ resp.user # NULL
    /\ Has(resp.req.body, "amount") /\ resp.req.body.amount = 0
    /\ \E t \in Mine : Some(t.id) = ParseInt(resp.req.id)

\* credential texts with the subjects of the model's users, with issue days,
\* with another third field and with none
SubjectTexts ==
    {Credential(i, n, t) : i \in 1..MaxUsers, n \in {ABC, BOB},
                           t \in StartDay..(StartDay + MaxTicks)} \cup
    {NumberToString(i) \o <<":">> \o n \o tail :
        i \in 1..MaxUsers, n \in {ABC, BOB}, tail \in {<<>>, <<":">>, <<":", "x">>}}

C24_Owner ==
    [][/\ \A t \in transactions' :
              (\A s \in transactions : s.id # t.id) =>
                  resp'.op = "create" /\ resp'.user # NULL /\ t.user_id = The(resp'.user).id
       /\ \A s \in transactions, t \in transactions' :
              s.id = t.id => s.user_id = t.user_id]_vars

\* an accepted PUT whose body names another user left the row with its owner
C24_Witness ==
    /\ resp.op = "update" /\ resp.status = 200
    /\ Has(resp.req.body, "user_id")
    /\ resp.req.body.user_id # The(resp.user).id
    /\ resp.body.user_id = The(resp.user).id
    /\ resp.body \in transactions

\* C25: a request answered 400, 401 or 404 leaves the users, categories and
\* transactions as they were.
C25_ErrorFrame ==
    [][(Answered /\ resp'.status \in {400, 401, 404}) =>
          /\ users' = users
          /\ categories' = categories
          /\ transactions' = transactions]_vars

\* a user's PUT of a transaction that another user owns was answered 404
C25_Witness ==
    /\ resp.op = "update" /\ resp.status = 404
    /\ \E t \in transactions :
           Some(t.id) = ParseInt(resp.req.id) /\ t.user_id # The(resp.user).id

\* C26: an authenticated PUT whose body sets none of amount, type,
\* category_id, note and date is answered 400 and leaves the store alone,
\* whether its id is stored, missing or owned by another user.
C26_NoFields ==
    [][(/\ Answered
        /\ resp'.op = "update"
        /\ resp'.user # NULL
        /\ DOMAIN resp'.req.body \cap TxFields = {}) =>
          /\ resp'.status = 400
          /\ tables' = tables]_vars

\* a PUT without fields of a user's own stored transaction was answered 400
C26_Witness ==
    /\ resp.op = "update" /\ resp.status = 400 /\ resp.user # NULL
    /\ DOMAIN resp.req.body \cap TxFields = {}
    /\ \E t \in Mine : Some(t.id) = ParseInt(resp.req.id)

\* C27: once no call of the client module is suspended, the token in memory
\* is the persisted token (both null or both the same text), and the
\* persisted token and the persisted user are both present or both absent.
Settled == calls = {} /\ queue = <<>>

C27_Original ==
    Settled =>
        /\ authToken = storage[TOKEN_KEY]
        /\ (storage[TOKEN_KEY] = NULL <=> storage[USER_KEY] = NULL)

C29_Original ==
    /\ (addType # NULL /\ fetches = {}) => \A c \in addCategories : Some(c.type) = addType
    /\ submitted # NotSubmitted =>
           \E c \in GetCategories(submitted.type) : c.id = submitted.category_id

\* C30: the range HomeScreen computes runs from the first to the last day of
\* the local month of the date, at every offset.
C30_Original ==
    monthRange # NoRange =>
        /\ monthRange.start = <<monthRange.date[1], monthRange.date[2], 1>>
        /\ monthRange.end = <<monthRange.date[1], monthRange.date[2],
                               DaysInMonth(monthRange.date[1], monthRange.date[2])>>

====
